---- MODULE Spec2Model ----
(***************************************************************************)
(* Model of yarll's environment helpers:                                   *)
(*   - yarll/common/envs/multi_agent_env.py : RockPaperScissorsEnv         *)
(*   - yarll/common/envs/vec_env/__init__.py: unwrap_vec_normalize and     *)
(*     sync_envs_normalization over chains of VecEnvWrapper objects        *)
(***************************************************************************)
EXTENDS Integers, Sequences, FiniteSets, TLC

\* ------------------------------------------------------------------ bounds
\* most step() calls made between two reset() calls
MaxSteps == 5
\* most wrappers stacked on a base vectorized environment
MaxDepth == 2
\* running statistics take the values 0..MaxVal
MaxVal == 1

VARIABLES
    \* --- RockPaperScissorsEnv
    rps,          \* the environment object under test
    ret,          \* what its last reset()/step() call returned or raised
    ref,          \* a second environment, constructed anew at every reset of rps
    ref_ret,      \* what the last call on ref returned or raised
    action_dict,  \* the argument of the last step() call
    nsteps,       \* number of step() calls since the last reset() call
    reset_from,   \* nsteps when reset() was last called (-1: on a fresh environment, -2: never)
    \* --- vectorized environments
    heap,         \* object id -> [cls, venv, obs_rms, ret_rms] (0: no such attribute)
    stats,        \* statistics object id -> value of the running statistics
    pc,           \* "idle", "unwrap" or "done"
    env,          \* argument env of the running call (0: none)
    eval_env,     \* argument eval_env of the running call (0: none)
    op,           \* the function called last: "none", "unwrap", "sync"
    env_tmp,      \* local variable env_tmp
    eval_env_tmp, \* local variable eval_env_tmp
    result,       \* return value of unwrap_vec_normalize (0: None)
    outcome,      \* "none", "return", "AssertionError" or "ImportError"
    iters,        \* loop iterations made by the running call
    heap0,        \* heap when the running call was made
    stats0,       \* stats when the running call was made
    synced        \* TRUE once a sync_envs_normalization call returned normally

rpsVars == <<rps, ret, ref, ref_ret, action_dict, nsteps, reset_from>>
vecVars == <<heap, stats, pc, env, eval_env, op, env_tmp, eval_env_tmp, result, outcome,
             iters, heap0, stats0, synced>>
vars == <<rps, ret, ref, ref_ret, action_dict, nsteps, reset_from,
          heap, stats, pc, env, eval_env, op, env_tmp, eval_env_tmp, result, outcome,
          iters, heap0, stats0, synced>>

\* =================================================== multi_agent_env.py
all_done == "_all_done"
ROCK == 0
PAPER == 1
SCISSORS == 2
Moves == {ROCK, PAPER, SCISSORS}
Agents == {"agent1", "agent2"}

EmptyDict == [k \in {} |-> 0]
Dict2(v1, v2) == [k \in Agents |-> IF k = "agent1" THEN v1 ELSE v2]

\* gym.spaces.Discrete(n), represented by n
Discrete(n) == n

\* RockPaperScissorsEnv.__init__: the two space dictionaries; self.steps is not set
RPSConstruct ==
    [has_steps |-> FALSE, steps |-> 0,
     action_space |-> Dict2(Discrete(3), Discrete(3)),
     observation_space |-> Dict2(Discrete(3), Discrete(3))]

NoReturn == [call |-> "none", raised |-> "", obs |-> EmptyDict, reward |-> EmptyDict,
             done |-> EmptyDict, info |-> EmptyDict]

\* a reset that keeps the step count of an environment that already has one
RPSResetKeepsSteps(e) ==
    [env |-> [e EXCEPT !.has_steps = TRUE],
     ret |-> [NoReturn EXCEPT !.call = "reset", !.obs = Dict2(0, 0)]]

\* RockPaperScissorsEnv.reset
RPSResetEnv(e) ==
    [env |-> [e EXCEPT !.has_steps = TRUE, !.steps = 0],
     ret |-> [NoReturn EXCEPT !.call = "reset", !.obs = Dict2(0, 0)]]

\* the reward branches of RockPaperScissorsEnv.step
RPSReward(a1a, a2a) ==
    IF \/ (a1a = ROCK /\ a2a = PAPER)
       \/ (a1a = PAPER /\ a2a = ROCK)
       \/ (a1a = SCISSORS /\ a2a = PAPER)
    THEN Dict2(1, -1)
    ELSE IF \/ (a2a = ROCK /\ a1a = PAPER)
            \/ (a2a = PAPER /\ a1a = ROCK)
            \/ (a2a = SCISSORS /\ a1a = PAPER)
    THEN Dict2(-1, 1)
    ELSE Dict2(0, 0)

\* the done dictionary with the episode ending only at exactly three steps
RPSDoneOnlyAtThree(steps) ==
    IF steps = 3
    THEN [k \in Agents \cup {all_done} |-> TRUE]
    ELSE Dict2(FALSE, FALSE)

\* the done dictionary of RockPaperScissorsEnv.step
RPSDone(steps) ==
    IF steps >= 3
    THEN [k \in Agents \cup {all_done} |-> TRUE]
    ELSE Dict2(FALSE, FALSE)

\* a step that leaves agent2 out of the observation dictionary
RPSStepDropsObservation(e, ad) ==
    LET a1a == ad["agent1"]
        a2a == ad["agent2"]
    IN  IF ~e.has_steps
        THEN [env |-> e, ret |-> [NoReturn EXCEPT !.call = "step", !.raised = "AttributeError"]]
        ELSE [env |-> [e EXCEPT !.steps = e.steps + 1],
              ret |-> [call |-> "step", raised |-> "",
                       obs |-> [k \in {"agent1"} |-> a2a],
                       reward |-> RPSReward(a1a, a2a),
                       done |-> RPSDone(e.steps + 1),
                       info |-> EmptyDict]]

\* RockPaperScissorsEnv.step; self.steps += 1 raises AttributeError before reset()
RPSStepEnv(e, ad) ==
    LET a1a == ad["agent1"]
        a2a == ad["agent2"]
    IN  IF ~e.has_steps
        THEN [env |-> e, ret |-> [NoReturn EXCEPT !.call = "step", !.raised = "AttributeError"]]
        ELSE [env |-> [e EXCEPT !.steps = e.steps + 1],
              ret |-> [call |-> "step", raised |-> "",
                       obs |-> Dict2(a2a, a1a),
                       reward |-> RPSReward(a1a, a2a),
                       done |-> RPSDone(e.steps + 1),
                       info |-> EmptyDict]]

RPSInit ==
    /\ rps = RPSConstruct
    /\ ret = NoReturn
    /\ ref = RPSConstruct
    /\ ref_ret = NoReturn
    /\ action_dict = EmptyDict
    /\ nsteps = 0
    /\ reset_from = -2

\* env.reset(); the reference environment is constructed anew and reset
Reset ==
    /\ rps' = RPSResetEnv(rps).env
    /\ ret' = RPSResetEnv(rps).ret
    /\ ref' = RPSResetEnv(RPSConstruct).env
    /\ ref_ret' = RPSResetEnv(RPSConstruct).ret
    /\ action_dict' = EmptyDict
    /\ nsteps' = 0
    /\ reset_from' = IF rps.has_steps THEN nsteps ELSE -1
    /\ UNCHANGED vecVars

\* env.step(action_dict) after reset(); the reference environment gets the same actions
Step ==
    /\ rps.has_steps
    /\ nsteps < MaxSteps
    /\ \E a1 \in Moves, a2 \in Moves :
         LET ad == Dict2(a1, a2) IN
         /\ action_dict' = ad
         /\ rps' = RPSStepEnv(rps, ad).env
         /\ ret' = RPSStepEnv(rps, ad).ret
         /\ ref' = RPSStepEnv(ref, ad).env
         /\ ref_ret' = RPSStepEnv(ref, ad).ret
    /\ nsteps' = nsteps + 1
    /\ UNCHANGED reset_from
    /\ UNCHANGED vecVars

\* env.step(action_dict) on an environment that was never reset
StepBeforeReset ==
    /\ ~rps.has_steps
    /\ \E a1 \in Moves, a2 \in Moves :
         LET ad == Dict2(a1, a2) IN
         /\ action_dict' = ad
         /\ rps' = RPSStepEnv(rps, ad).env
         /\ ret' = RPSStepEnv(rps, ad).ret
         /\ ref' = RPSStepEnv(ref, ad).env
         /\ ref_ret' = RPSStepEnv(ref, ad).ret
    /\ UNCHANGED <<nsteps, reset_from>>
    /\ UNCHANGED vecVars

\* =================================================== vec_env/__init__.py
TrainRoot == 1
EvalRoot == MaxDepth + 2

IsVecEnvWrapper(c) == c \in {"VecFrameStack", "VecNormalize", "_UnvecWrapper"}
IsVecNormalize(c) == c = "VecNormalize"
IsUnvecWrapper(c) == c = "_UnvecWrapper"

\* class sequences of a wrapper stack, outermost first; only the outermost
\* wrapper may be the model's _UnvecWrapper
ClassSeqs ==
    UNION { { cs \in [1..n -> {"VecFrameStack", "VecNormalize", "_UnvecWrapper"}] :
                \A i \in 2..n : cs[i] # "_UnvecWrapper" } : n \in 0..MaxDepth }

\* the objects of a stack built on a base environment: wrapper i has id
\* root+i-1 and wraps root+i; a VecNormalize starts with its own statistics
ChainObjects(root, cs) ==
    [o \in root..(root + Len(cs)) |->
        IF o = root + Len(cs)
        THEN [cls |-> "DummyVecEnv", venv |-> 0, obs_rms |-> 0, ret_rms |-> 0]
        ELSE [cls |-> cs[o - root + 1], venv |-> o + 1,
              obs_rms |-> IF cs[o - root + 1] = "VecNormalize" THEN 2 * o - 1 ELSE 0,
              ret_rms |-> IF cs[o - root + 1] = "VecNormalize" THEN 2 * o ELSE 0]]

Referenced(h) ==
    ({h[o].obs_rms : o \in DOMAIN h} \cup {h[o].ret_rms : o \in DOMAIN h}) \ {0}

VecConstruct(tcs, ecs) ==
    LET h == ChainObjects(TrainRoot, tcs) @@ ChainObjects(EvalRoot, ecs)
    IN  [heap |-> h, stats |-> [i \in Referenced(h) |-> 0]]

VecIdle ==
    /\ pc = "idle"
    /\ env = 0
    /\ eval_env = 0
    /\ op = "none"
    /\ env_tmp = 0
    /\ eval_env_tmp = 0
    /\ result = 0
    /\ outcome = "none"
    /\ iters = 0
    /\ heap0 = EmptyDict
    /\ stats0 = EmptyDict
    /\ synced = FALSE

VecInit ==
    /\ \E tcs \in ClassSeqs, ecs \in ClassSeqs :
         /\ heap = VecConstruct(tcs, ecs).heap
         /\ stats = VecConstruct(tcs, ecs).stats
    /\ VecIdle

VecInitBare ==
    /\ heap = VecConstruct(<<>>, <<>>).heap
    /\ stats = VecConstruct(<<>>, <<>>).stats
    /\ VecIdle

\* one pass of the loop of unwrap_vec_normalize that always walks on inward
UnwrapIterInnermost(h, t, r) ==
    IF IsVecEnvWrapper(h[t].cls)
    THEN [done |-> FALSE, result |-> IF IsVecNormalize(h[t].cls) THEN t ELSE r,
          env_tmp |-> h[t].venv]
    ELSE [done |-> TRUE, result |-> r, env_tmp |-> t]

\* one pass of the loop of unwrap_vec_normalize: the while test, the return
\* inside the loop, the step inward, the return None after the loop
UnwrapIter(h, t, r) ==
    IF IsVecEnvWrapper(h[t].cls)
    THEN IF IsVecNormalize(h[t].cls)
         THEN [done |-> TRUE, result |-> t, env_tmp |-> t]
         ELSE [done |-> FALSE, result |-> r, env_tmp |-> h[t].venv]
    ELSE [done |-> TRUE, result |-> 0, env_tmp |-> t]

\* unwrap_vec_normalize(env) is called: env_tmp = env
UnwrapCall ==
    /\ pc = "idle"
    /\ \E e \in {TrainRoot, EvalRoot} :
         /\ env' = e
         /\ env_tmp' = e
    /\ eval_env' = 0
    /\ pc' = "unwrap"
    /\ op' = "unwrap"
    /\ eval_env_tmp' = 0
    /\ result' = 0
    /\ outcome' = "none"
    /\ iters' = 0
    /\ heap0' = heap
    /\ stats0' = stats
    /\ UNCHANGED <<heap, stats, synced>>
    /\ UNCHANGED rpsVars

UnwrapStep ==
    /\ pc = "unwrap"
    /\ \E it \in {UnwrapIter(heap, env_tmp, result)} :
         /\ env_tmp' = it.env_tmp
         /\ result' = it.result
         /\ pc' = IF it.done THEN "done" ELSE "unwrap"
         /\ outcome' = IF it.done THEN "return" ELSE "none"
    /\ iters' = iters + 1
    /\ UNCHANGED <<heap, stats, env, eval_env, op, eval_env_tmp, heap0, stats0, synced>>
    /\ UNCHANGED rpsVars

\* the caller takes the result of the finished call and goes on
Resume ==
    /\ pc = "done"
    /\ pc' = "idle"
    /\ env' = 0
    /\ eval_env' = 0
    /\ op' = "none"
    /\ env_tmp' = 0
    /\ eval_env_tmp' = 0
    /\ result' = 0
    /\ outcome' = "none"
    /\ iters' = 0
    /\ heap0' = EmptyDict
    /\ stats0' = EmptyDict
    /\ UNCHANGED <<heap, stats, synced>>
    /\ UNCHANGED rpsVars

\* copy.deepcopy of a statistics object: a new object holding the same value
DeepCopy(s, id) ==
    LET f == CHOOSE i \in 1..(Cardinality(DOMAIN s) + 1) :
                 /\ i \notin DOMAIN s
                 /\ \A j \in 1..(i - 1) : j \in DOMAIN s
    IN  [id |-> f, stats |-> (f :> s[id]) @@ s]

\* (CHOOSE over a one-element set, here and below, binds a value once.)
\* A statistics object is named by the first attribute slot that refers to it
\* (obs_rms of object o: 2o-1, ret_rms of object o: 2o), as ChainObjects names
\* them; objects no attribute refers to any more are reclaimed.
FirstSlot(h, id) ==
    LET slots == {2 * o - 1 : o \in {x \in DOMAIN h : h[x].obs_rms = id}}
                 \cup {2 * o : o \in {x \in DOMAIN h : h[x].ret_rms = id}}
    IN  CHOOSE i \in slots : \A j \in slots : i <= j

\* the statistics object a slot refers to
SlotRef(h, i) ==
    IF i % 2 = 1 THEN h[(i + 1) \div 2].obs_rms ELSE h[i \div 2].ret_rms

Collect(h, s) ==
    CHOOSE r \in
      { [heap |-> [o \in DOMAIN h |->
                     [h[o] EXCEPT !.obs_rms = name[@], !.ret_rms = name[@]]],
         stats |-> [i \in {name[id] : id \in Referenced(h)} |-> s[SlotRef(h, i)]]] :
        name \in {[id \in Referenced(h) \cup {0} |->
                     IF id = 0 THEN 0 ELSE FirstSlot(h, id)]} } : TRUE

\* an assignment without the deepcopy: both wrappers hold one statistics object
AssignObsRmsShared(h, s, e, t) ==
    Collect([h EXCEPT ![e].obs_rms = h[t].obs_rms], s)

\* an assignment that syncs the reward statistics as well
AssignObsRmsAndRet(h, s, e, t) ==
    CHOOSE r \in { Collect([h EXCEPT ![e].obs_rms = c.id, ![e].ret_rms = c2.id], c2.stats) :
                     c \in {DeepCopy(s, h[t].obs_rms)},
                     c2 \in {DeepCopy(DeepCopy(s, h[t].obs_rms).stats, h[t].ret_rms)} } : TRUE

\* eval_env_tmp.obs_rms = deepcopy(env_tmp.obs_rms)
AssignObsRms(h, s, e, t) ==
    CHOOSE r \in { Collect(h2, c.stats) :
                     c \in {DeepCopy(s, h[t].obs_rms)},
                     h2 \in {[h EXCEPT ![e].obs_rms = DeepCopy(s, h[t].obs_rms).id]} } : TRUE

\* the entry of sync_envs_normalization: the import of _UnvecWrapper from
\* stable_baselines, which raises where that package is not installed, and the
\* early return for an _UnvecWrapper
SyncEnter(h, t, importable) ==
    IF ~importable THEN "ImportError"
    ELSE IF IsUnvecWrapper(h[t].cls) THEN "return" ELSE "continue"

\* one pass of the loop that copies only into a VecNormalize of the evaluation chain
SyncIterOnlyIntoVecNormalize(h, s, t, e) ==
    IF ~IsVecEnvWrapper(h[t].cls)
    THEN [outcome |-> "return", heap |-> h, stats |-> s, env_tmp |-> t, eval_env_tmp |-> e]
    ELSE CHOOSE r \in
           { IF ~IsVecEnvWrapper(w.heap[e].cls)
             THEN [outcome |-> "AssertionError", heap |-> w.heap, stats |-> w.stats,
                   env_tmp |-> w.heap[t].venv, eval_env_tmp |-> e]
             ELSE [outcome |-> "continue", heap |-> w.heap, stats |-> w.stats,
                   env_tmp |-> w.heap[t].venv, eval_env_tmp |-> w.heap[e].venv] :
             w \in { IF IsVecNormalize(h[t].cls) /\ IsVecNormalize(h[e].cls)
                     THEN AssignObsRms(h, s, e, t)
                     ELSE [heap |-> h, stats |-> s] } } : TRUE

\* one pass of the loop of sync_envs_normalization: the while test, the copy
\* for a VecNormalize, the step inward, the assertion, the step inward of eval
SyncIter(h, s, t, e) ==
    IF ~IsVecEnvWrapper(h[t].cls)
    THEN [outcome |-> "return", heap |-> h, stats |-> s, env_tmp |-> t, eval_env_tmp |-> e]
    ELSE CHOOSE r \in
           { IF ~IsVecEnvWrapper(w.heap[e].cls)
             THEN [outcome |-> "AssertionError", heap |-> w.heap, stats |-> w.stats,
                   env_tmp |-> w.heap[t].venv, eval_env_tmp |-> e]
             ELSE [outcome |-> "continue", heap |-> w.heap, stats |-> w.stats,
                   env_tmp |-> w.heap[t].venv, eval_env_tmp |-> w.heap[e].venv] :
             w \in { IF IsVecNormalize(h[t].cls)
                     THEN AssignObsRms(h, s, e, t)
                     ELSE [heap |-> h, stats |-> s] } } : TRUE

\* the loop of sync_envs_normalization, run until it returns or raises
RECURSIVE SyncLoop(_, _, _, _, _)
SyncLoop(h, s, t, e, n) ==
    CHOOSE r \in
      { IF it.outcome = "continue"
        THEN SyncLoop(it.heap, it.stats, it.env_tmp, it.eval_env_tmp, n + 1)
        ELSE [outcome |-> it.outcome, heap |-> it.heap, stats |-> it.stats,
              env_tmp |-> it.env_tmp, eval_env_tmp |-> it.eval_env_tmp, iters |-> n + 1] :
        it \in {SyncIter(h, s, t, e)} } : TRUE

\* sync_envs_normalization(env, eval_env), from the call to its return or raise
SyncCall ==
    /\ pc = "idle"
    /\ pc' = "done"
    /\ env' = TrainRoot
    /\ eval_env' = EvalRoot
    /\ op' = "sync"
    /\ result' = 0
    /\ heap0' = heap
    /\ stats0' = stats
    /\ \E importable \in BOOLEAN :
       IF SyncEnter(heap, TrainRoot, importable) # "continue"
       THEN /\ outcome' = SyncEnter(heap, TrainRoot, importable)
            /\ env_tmp' = TrainRoot
            /\ eval_env_tmp' = EvalRoot
            /\ iters' = 0
            /\ UNCHANGED <<heap, stats>>
       ELSE \E r \in {SyncLoop(heap, stats, TrainRoot, EvalRoot, 0)} :
            /\ outcome' = r.outcome
            /\ env_tmp' = r.env_tmp
            /\ eval_env_tmp' = r.eval_env_tmp
            /\ iters' = r.iters
            /\ heap' = r.heap
            /\ stats' = r.stats
    /\ synced' = (synced \/ outcome' = "return")
    /\ UNCHANGED rpsVars

\* VecNormalize.step_wait: obs_rms.update(obs) and ret_rms.update(ret) change the
\* two statistics objects of the wrapper in place; v stands for the batches seen
UpdateRms(h, s, o, v) ==
    [i \in DOMAIN s |-> IF i \in {h[o].obs_rms, h[o].ret_rms} THEN v ELSE s[i]]

Update ==
    /\ pc = "idle"
    /\ \E o \in DOMAIN heap, v \in 0..MaxVal :
         /\ IsVecNormalize(heap[o].cls)
         /\ stats' = UpdateRms(heap, stats, o, v)
         /\ stats' # stats
    /\ UNCHANGED <<heap, pc, env, eval_env, op, env_tmp, eval_env_tmp, result, outcome,
                   iters, heap0, stats0, synced>>
    /\ UNCHANGED rpsVars

\* ------------------------------------------------------- specifications
SpecRPSInit == RPSInit /\ VecInitBare
SpecRPSNext == Reset \/ Step \/ StepBeforeReset
SpecRPS == SpecRPSInit /\ [][SpecRPSNext]_vars

SpecVecInit == RPSInit /\ VecInit

SpecUnwrapNext == UnwrapCall \/ UnwrapStep \/ Update \/ Resume
SpecUnwrap == SpecVecInit /\ [][SpecUnwrapNext]_vars
FairSpecUnwrap == SpecUnwrap /\ WF_vars(UnwrapStep)

SpecSyncNext == SyncCall \/ Update \/ Resume
SpecSync == SpecVecInit /\ [][SpecSyncNext]_vars

\* =============================================================== claims
\* ---- helpers over wrapper chains
\* the object d links inward of o (0: the chain ends before)
RECURSIVE ObjAt(_, _, _)
ObjAt(h, o, d) ==
    IF d = 0 \/ o = 0 THEN o
    ELSE ObjAt(h, h[o].venv, d - 1)

Depths == 0..MaxDepth
Chain(h, root) == {ObjAt(h, root, d) : d \in Depths} \ {0}

\* value of the obs_rms of object o (-1: no such attribute)
ObsVal(h, s, o) == IF h[o].obs_rms = 0 THEN -1 ELSE s[h[o].obs_rms]
RetVal(h, s, o) == IF h[o].ret_rms = 0 THEN -1 ELSE s[h[o].ret_rms]
ObsVals(h, s, root) == [o \in Chain(h, root) |-> ObsVal(h, s, o)]

\* the VecNormalize nearest to e in its chain (0: none)
OutermostVecNormalize(h, e) ==
    LET ds == {d \in Depths : /\ ObjAt(h, e, d) # 0
                              /\ IsVecNormalize(h[ObjAt(h, e, d)].cls)}
    IN  IF ds = {} THEN 0
        ELSE ObjAt(h, e, CHOOSE d \in ds : \A x \in ds : d <= x)

SyncReturned == pc = "done" /\ op = "sync" /\ outcome = "return"

\* C1: when sync_envs_normalization(env, eval_env) returns normally and env is
\* not an _UnvecWrapper, then for every depth d where the training chain holds
\* a VecNormalize, the evaluation object at depth d has an obs_rms whose value
\* is the value the training obs_rms at depth d had when the call was made.
C1_SyncCopiesEveryDepth ==
    (SyncReturned /\ ~IsUnvecWrapper(heap0[env].cls)) =>
        \A d \in Depths :
            LET t == ObjAt(heap0, env, d)
                e == ObjAt(heap0, eval_env, d)
            IN  (t # 0 /\ IsVecNormalize(heap0[t].cls)) =>
                    /\ e # 0
                    /\ heap[e].obs_rms # 0
                    /\ stats[heap[e].obs_rms] = stats0[heap0[t].obs_rms]

\* a call returned normally after copying, at depth 1 or deeper, a value that
\* differs from what the evaluation object held before
C1_Witness ==
    /\ SyncReturned
    /\ ~IsUnvecWrapper(heap0[env].cls)
    /\ \E d \in Depths \ {0} :
         LET t == ObjAt(heap0, env, d)
             e == ObjAt(heap0, eval_env, d)
         IN  /\ t # 0
             /\ e # 0
             /\ IsVecNormalize(heap0[t].cls)
             /\ ObsVal(heap0, stats0, e) # ObsVal(heap0, stats0, t)
             /\ ObsVal(heap, stats, e) = ObsVal(heap0, stats0, t)

\* C2: unwrap_vec_normalize(env) returns the outermost VecNormalize of the chain
\* of env, None (0) when the chain holds none, changes no object, and every
\* call terminates.
C2_UnwrapOutermost ==
    /\ [](op = "unwrap" =>
            /\ heap = heap0
            /\ stats = stats0
            /\ (pc = "done" => /\ outcome = "return"
                               /\ result = OutermostVecNormalize(heap0, env)))
    /\ ((pc = "unwrap") ~> (pc = "done"))

\* a call returned a VecNormalize that wraps another VecNormalize
C2_Witness ==
    /\ pc = "done"
    /\ op = "unwrap"
    /\ result # 0
    /\ \E o \in Chain(heap, heap[result].venv) : IsVecNormalize(heap[o].cls)

\* a call returned None for a chain of wrappers without a VecNormalize
C2_WitnessNone ==
    /\ pc = "done"
    /\ op = "unwrap"
    /\ result = 0
    /\ IsVecEnvWrapper(heap[env].cls)

\* ---- rock-paper-scissors
Beats(a, b) ==
    \/ (a = ROCK /\ b = SCISSORS)
    \/ (a = SCISSORS /\ b = PAPER)
    \/ (a = PAPER /\ b = ROCK)

StepReturned == ret.call = "step" /\ ret.raised = ""

\* C3: step rewards the winner of rock-paper-scissors with +1 and the loser
\* with -1, and both agents with 0 when they choose the same move.
C3_RewardsFollowRules ==
    StepReturned =>
        LET a1 == action_dict["agent1"]
            a2 == action_dict["agent2"]
        IN  /\ Beats(a1, a2) => ret.reward = Dict2(1, -1)
            /\ Beats(a2, a1) => ret.reward = Dict2(-1, 1)
            /\ a1 = a2 => ret.reward = Dict2(0, 0)

\* C4: the done dictionary returned by step has an entry for every agent that
\* supplied an action, and every agent not marked done has an entry in the
\* returned observation and reward dictionaries and is a key of action_space
\* and observation_space.
C4_StepContract ==
    StepReturned =>
        /\ DOMAIN action_dict \subseteq DOMAIN ret.done
        /\ \A a \in DOMAIN action_dict :
             ~ret.done[a] =>
                /\ a \in DOMAIN ret.obs
                /\ a \in DOMAIN ret.reward
                /\ a \in DOMAIN rps.action_space
                /\ a \in DOMAIN rps.observation_space

\* a step returned with both agents still playing
C4_Witness ==
    /\ StepReturned
    /\ nsteps = 2
    /\ \A a \in Agents : ~ret.done[a]

\* C5: reset returns {'agent1': 0, 'agent2': 0} from any state, and after it
\* every step returns what a freshly constructed and reset environment returns
\* for the same actions.
C5_ResetIsClean ==
    rps.has_steps =>
        /\ ret.call = "reset" => (ret.obs = Dict2(0, 0) /\ ret.raised = "")
        /\ ret = ref_ret
        /\ ret.raised = ""

\* the episode was reset after it was done, and has ended again since
C5_Witness ==
    /\ reset_from >= 3
    /\ StepReturned
    /\ nsteps = 3
    /\ ret.done[all_done]

\* the episode was reset in its middle, and two steps were made since
C5_WitnessMidEpisode ==
    /\ reset_from \in 1..2
    /\ StepReturned
    /\ nsteps = 2

\* C6: the first and second step after a reset return done False for both
\* agents and no '_all_done' key, the third returns done True for both with
\* '_all_done': True, every later step keeps returning done True for both, and
\* '_all_done' is present exactly when both agents are marked done.
C6_EpisodeProtocol ==
    StepReturned =>
        /\ nsteps \in 1..2 => ret.done = Dict2(FALSE, FALSE)
        /\ nsteps = 3 => ret.done = [k \in Agents \cup {all_done} |-> TRUE]
        /\ nsteps > 3 => \A a \in Agents : ret.done[a]
        /\ (all_done \in DOMAIN ret.done) <=> (\A a \in Agents : ret.done[a])
        /\ (all_done \in DOMAIN ret.done) => ret.done[all_done]

\* a step made after the third one without a reset in between
C6_Witness ==
    /\ StepReturned
    /\ nsteps > 3
    /\ \A a \in Agents : ret.done[a]

\* ---- frame of sync_envs_normalization
\* C7: a call of sync_envs_normalization, returning or failing, changes no
\* attribute of any object of the training chain and no statistics object of
\* it, and leaves the class, the venv link and the reward statistics of every
\* object of the evaluation chain as they were.
C7_SyncWritesOnlyEvalObs ==
    (pc = "done" /\ op = "sync") =>
        /\ DOMAIN heap = DOMAIN heap0
        /\ \A o \in Chain(heap0, env) :
             /\ heap[o] = heap0[o]
             /\ ObsVal(heap, stats, o) = ObsVal(heap0, stats0, o)
             /\ RetVal(heap, stats, o) = RetVal(heap0, stats0, o)
        /\ \A o \in Chain(heap0, eval_env) :
             /\ heap[o].cls = heap0[o].cls
             /\ heap[o].venv = heap0[o].venv
             /\ heap[o].ret_rms = heap0[o].ret_rms
             /\ RetVal(heap, stats, o) = RetVal(heap0, stats0, o)

\* a call failed after it had written statistics into the evaluation chain,
\* whose reward statistics differ from those of the training chain
C7_Witness ==
    /\ pc = "done"
    /\ op = "sync"
    /\ outcome = "AssertionError"
    /\ \E o \in Chain(heap0, eval_env) : ObsVal(heap, stats, o) # ObsVal(heap0, stats0, o)
    /\ \E d \in Depths :
         /\ ObjAt(heap0, env, d) # 0
         /\ ObjAt(heap0, eval_env, d) # 0
         /\ IsVecNormalize(heap0[ObjAt(heap0, env, d)].cls)
         /\ RetVal(heap, stats, ObjAt(heap0, eval_env, d))
              # RetVal(heap, stats, ObjAt(heap0, env, d))

\* a call returned normally and changed the evaluation chain
C7_WitnessReturned ==
    /\ SyncReturned
    /\ \E o \in Chain(heap0, eval_env) : ObsVal(heap, stats, o) # ObsVal(heap0, stats0, o)

\* no statistics object is an attribute of an object of both chains
NoSharedStats(h) ==
    \A t \in Chain(h, TrainRoot), e \in Chain(h, EvalRoot) :
        {h[t].obs_rms, h[t].ret_rms} \cap {h[e].obs_rms, h[e].ret_rms} \subseteq {0}

\* C8: once a call of sync_envs_normalization has returned normally, the two
\* chains share no statistics object, an update of the obs_rms of a training
\* wrapper leaves the obs_rms of every evaluation object unchanged, and an
\* update on the evaluation side leaves every training obs_rms unchanged.
C8_CopiesAreIndependent ==
    [][synced =>
          /\ NoSharedStats(heap')
          /\ (pc = "idle" /\ pc' = "idle") =>
                \/ ObsVals(heap', stats', TrainRoot) = ObsVals(heap, stats, TrainRoot)
                \/ ObsVals(heap', stats', EvalRoot) = ObsVals(heap, stats, EvalRoot)]_vars

\* after a normal return, an object of the evaluation chain that got its
\* obs_rms from the call holds a value the training wrapper no longer has
C8_Witness ==
    /\ synced
    /\ pc = "idle"
    /\ \E d \in Depths :
         LET t == ObjAt(heap, TrainRoot, d)
             e == ObjAt(heap, EvalRoot, d)
         IN  /\ t # 0
             /\ e # 0
             /\ IsVecNormalize(heap[t].cls)
             /\ ~IsVecNormalize(heap[e].cls)
             /\ heap[e].obs_rms # 0
             /\ ObsVal(heap, stats, e) # ObsVal(heap, stats, t)

====
